---- MODULE Spec2Model ----
(***************************************************************************)
(* Session manager of the mobile client (src/src/context/AuthContext.tsx). *)
(* The React state of AuthProvider, the secure-store item, the interval    *)
(* timer and every asynchronous invocation of initializeAuth, login,       *)
(* logout and refreshAccessToken are modelled; each action is one          *)
(* synchronous segment of a handler (from one await to the next).  The     *)
(* setters a segment calls are queued; React renders them, and runs the    *)
(* effects, in a step of its own (Render), before which other callbacks    *)
(* may still run with the closures of the previous render.                 *)
(* Times are milliseconds, as in the source.                               *)
(***************************************************************************)
EXTENDS Integers, Sequences, FiniteSets, TLC

VARIABLES accessToken, refreshToken, user, accessTokenExpiresAt,
          refreshTokenExpiresAt, isLoading,
          store, now, appStateRef,
          liveIntervals, refreshIntervalRef, intervalDue,
          procs, storeQueue, callsLeft, last,
          vaults, memberships, isInitialized, vaultIsLoading, vaultCalls,
          pendingState, alert, newObjects, effectsDue, closure

\* the state of the last render: what the context value shows and what the
\* closures of that render captured.  pendingState is the React state with
\* the setters called since then applied; alert is the sign-out Alert on
\* screen, with the accessToken its logout closure captured.
reactState == <<accessToken, refreshToken, user, accessTokenExpiresAt,
                refreshTokenExpiresAt, isLoading>>
timerVars == <<liveIntervals, refreshIntervalRef, intervalDue>>
\* the updates queued for the next render: the values, and whether an
\* expiry date among them is an object made since the last render (a new
\* Date is never Object.is the rendered one, whatever its value)
queueVars == <<pendingState, newObjects>>
\* the passive effects of the last render have still to run (effectsDue);
\* closure is what the callbacks the effects registered with setInterval
\* and AppState captured: accessToken, refreshToken and the two expiries of
\* the render whose effects ran last
effectVars == <<effectsDue, closure>>
\* the same four values of the last render, captured by the callbacks the
\* context value hands out
Rendered == <<accessToken, refreshToken, accessTokenExpiresAt,
              refreshTokenExpiresAt>>
\* VaultProvider: its state, and its refreshVaults calls awaiting their
\* responses
vaultVars == <<vaults, memberships, isInitialized, vaultIsLoading, vaultCalls>>
vars == <<accessToken, refreshToken, user, accessTokenExpiresAt,
          refreshTokenExpiresAt, isLoading, store, now, appStateRef,
          liveIntervals, refreshIntervalRef, intervalDue,
          procs, storeQueue, callsLeft, last,
          vaults, memberships, isInitialized, vaultIsLoading, vaultCalls,
          pendingState, alert, newObjects, effectsDue, closure>>

(***************************************************************************)
(* Program constants                                                       *)
(***************************************************************************)
TOKEN_REFRESH_INTERVAL == 60000
REFRESH_THRESHOLD == 120000
DEFAULT_ACCESS_TTL == 300000
DEFAULT_REFRESH_TTL == 86400000

(***************************************************************************)
(* Bounds of the model                                                     *)
(***************************************************************************)
\* the clock starts here and stops advancing at MaxNow
StartNow == 60000
MaxNow == 120000
\* number of refreshAccessToken invocations that may be in progress at once
MaxRefresh == 2
\* number of login, logout and refreshAccessToken calls made in one run;
\* once they are made the run goes on until what is in progress has
\* completed: the app state and the clock change no more
MaxCalls == 2
\* number of logout invocations that may be in progress at once
MaxLogout == 2
\* number of refreshVaults calls a screen makes while others are unanswered
MaxVaultCalls == 2

(***************************************************************************)
(* Values                                                                  *)
(***************************************************************************)
\* null / undefined / '' for a token string: every test in the source is a
\* truthiness test
NoToken == <<>>
\* null for a Date
NullDate == -1
\* null for UserInfo
NoUser == <<>>
\* no sign-out Alert on screen
NoAlert == <<>>

\* A token string is the sequence of its '.'-separated parts.  The payload
\* part of a JWT is what atob + JSON.parse would make of it: json = FALSE
\* is a part that does not decode.
NullPayload == [json |-> FALSE, sub |-> "", exp |-> 0]
JwtToken(sub, exp, sig) == <<"hdr", [json |-> TRUE, sub |-> sub, exp |-> exp], sig>>
OpaqueToken(s) == <<s>>

\* the tokens a previous run left in the store
AccessA1 == OpaqueToken("a1")
RefreshR1 == OpaqueToken("r1")
\* the tokens the provider issues in this run
AccessA2 == JwtToken("u1", 0, "a2")
RefreshR2 == JwtToken("", 600, "r2")

AccessTokens == {AccessA2}
RefreshTokens == {RefreshR2}
\* a token response without an expiresIn field (undefined in the source)
NoExpiresIn == -1
\* what a token response may carry as expiresIn: nothing, or a lifetime in
\* seconds
ExpiresInChoices == {NoExpiresIn, 0, 300}
\* steps by which the clock advances
AdvanceSteps == {60000}

\* decodeJWT: null unless there are three parts and the payload decodes
decodeJWT(token) ==
  IF Len(token) # 3 THEN NullPayload
  ELSE IF ~token[2].json THEN NullPayload
  ELSE token[2]

\* extractUserInfo: sub: payload.sub || ''
extractUserInfo(payload) == <<[sub |-> payload.sub]>>

\* Date.prototype.toISOString: "....-..-..T..:..:ss.mmmZ", kept as the
\* pair (whole seconds, milliseconds); new Date(iso) parses it back
toISOString(ms) == <<ms \div 1000, ms % 1000>>
NewDate(iso) == iso[1] * 1000 + iso[2]

\* JSON.stringify of a StoredTokens object, and the text of an item that
\* JSON.parse rejects
JSONstringify(tokens) == [parses |-> TRUE, value |-> tokens]
StoredTokens(a, r, ae, re) ==
  [accessToken |-> a, refreshToken |-> r,
   accessTokenExpiresAt |-> toISOString(ae),
   refreshTokenExpiresAt |-> toISOString(re)]
NoTokens == StoredTokens(NoToken, NoToken, 0, 0)
GarbageText == [parses |-> FALSE, value |-> NoTokens]

\* the secure store holds at most one item, under TOKENS_KEY
EmptyStore == <<>>
StoreWith(text) == <<text>>

\* what a previous run of the program can have left under TOKENS_KEY
InitialStores ==
  {EmptyStore, StoreWith(GarbageText)} \cup
  { StoreWith(JSONstringify(StoredTokens(AccessA1, RefreshR1, ae, re))) :
      ae \in {StartNow - 60000, StartNow + 179000, StartNow + 181000},
      re \in {StartNow - 60000, StartNow, StartNow + 600000} }

(***************************************************************************)
(* Asynchronous invocations.  Every invocation in progress is a record:    *)
(* where it is suspended (pc) and what its closure captured when it was    *)
(* called.  access is the accessToken captured by logout (by the logout    *)
(* closure of the same render for a refresh), refresh and refreshExp what  *)
(* refreshAccessToken captured, resp the token response it received,       *)
(* pending the object handed to saveTokens.  rejected records that         *)
(* AuthSession.refreshAsync threw (in the record of the step in which      *)
(* loadTokens completes: that its read threw); solo that no other          *)
(* invocation was in progress at any time during this one.                 *)
(***************************************************************************)
InitId == <<"init", 0>>
LoginId == <<"login", 0>>
LogoutIds == {<<"logout", i>> : i \in 1..MaxLogout}
RefreshIds == {<<"refresh", i>> : i \in 1..MaxRefresh}
ProcIds == {InitId, LoginId} \cup LogoutIds \cup RefreshIds

\* no token response received
NoResponse ==
  [throws |-> FALSE, accessToken |-> NoToken, refreshToken |-> NoToken,
   expiresIn |-> NoExpiresIn]

Idle ==
  [pc |-> "idle", access |-> NoToken, refresh |-> NoToken,
   refreshExp |-> NullDate, resp |-> NoResponse, pending |-> NoTokens,
   rejected |-> FALSE, solo |-> FALSE]

Active(p) == procs[p].pc # "idle"
Alone(me) == \A p \in ProcIds \ {me} : ~Active(p)

\* the invocation me starts as rec: it overlaps every invocation in progress
StartProc(me, rec) ==
  [p \in ProcIds |->
     IF p = me THEN [rec EXCEPT !.solo = Alone(me)]
     ELSE IF Active(p) THEN [procs[p] EXCEPT !.solo = FALSE]
     ELSE procs[p]]

\* The awaits that can throw, named by the step in which they do, and the
\* await each is
Failures ==
  {"promptThrew", "exchangeThrew", "saveFailed", "refreshThrew",
   "revokeFailed", "clearFailed", "endSessionThrew"}
ThrowSite(ev) ==
  CASE ev = "promptThrew" -> "prompt"
    [] ev = "exchangeThrew" -> "exchange"
    [] ev = "saveFailed" -> "save"
    [] ev = "refreshThrew" -> "refreshAsync"
    [] ev = "revokeFailed" -> "revoke"
    [] ev = "clearFailed" -> "clear"
    [] ev = "endSessionThrew" -> "endSession"
    [] OTHER -> "none"

\* The blocks of function fn that enclose its await site, innermost first:
\* "try" is the body of a try statement that has a catch clause, "catch"
\* the body of a catch clause (which its own try does not protect).
\*   login: promptAsync, exchangeCodeAsync and saveTokens lie in the try;
\*   logout: revokeAsync in the inner try inside the outer one, clearTokens
\*     and openAuthSessionAsync in the outer try;
\*   refreshAccessToken: refreshAsync and saveTokens in the try, the
\*     forced "await logout()" in the catch clause;
\*   initializeAuth: clearTokens in the try;
\*   saveTokens and clearTokens: the store call in no block.
BlocksBug(fn, site) ==
  CASE fn = "login" -> <<"try">>
    [] fn = "logout" /\ site = "revoke" -> <<"try", "try">>
    [] fn = "logout" -> <<"try">>
    [] fn = "refresh" -> <<>>
    [] fn = "init" -> <<"try">>
    [] OTHER -> <<>>
Blocks(fn, site) ==
  CASE fn = "login" -> <<"try">>
    [] fn = "logout" /\ site = "revoke" -> <<"try", "try">>
    [] fn = "logout" -> <<"try">>
    [] fn = "refresh" /\ site = "logout" -> <<"catch">>
    [] fn = "refresh" -> <<"try">>
    [] fn = "init" -> <<"try">>
    [] OTHER -> <<>>

\* the awaits an exception thrown at step ev of an invocation of op passes,
\* innermost first, each as the blocks around it: the store call inside
\* saveTokens or clearTokens, the await in logout (for a refresh: in the
\* logout its catch clause awaits, then that await) or in op itself
CallChain(op, ev) ==
  LET site == ThrowSite(ev)
      inStore == IF site = "save" THEN <<Blocks("saveTokens", "setItemAsync")>>
                 ELSE IF site = "clear"
                 THEN <<Blocks("clearTokens", "deleteItemAsync")>>
                 ELSE <<>>
  IN
  IF op = "refresh" /\ site \in {"revoke", "clear", "endSession"}
  THEN inStore \o <<Blocks("logout", site), Blocks("refresh", "logout")>>
  ELSE inStore \o <<Blocks(op, site)>>

\* a catch clause takes the exception: some enclosing block is a try body
Catches(blocks) == \E k \in 1..Len(blocks) : blocks[k] = "try"

\* the exception passes every await of the chain uncaught: the promise the
\* function returned to its caller rejects
Escapes(op, ev) ==
  /\ ev \in Failures
  /\ \A k \in 1..Len(CallChain(op, ev)) : ~Catches(CallChain(op, ev)[k])

\* the most recent step: which invocation took it (op, i), what happened
\* (ev), whether an exception escaped to the caller, and the invocation's
\* record as the step found it
Ev(id, ev, invoked, rec) ==
  [op |-> id[1], i |-> id[2], ev |-> ev, invoked |-> invoked,
   escaped |-> Escapes(id[1], ev),
   rejected |-> rec.rejected, solo |-> rec.solo, pending |-> rec.pending,
   access |-> rec.access, refresh |-> rec.refresh,
   refreshExp |-> rec.refreshExp, resp |-> rec.resp]
NoEvent == Ev(<<"none", 0>>, "none", FALSE, Idle)

(***************************************************************************)
(* Rendering.  The setters called before React renders are batched into    *)
(* one render.  getDiscoveryDocument() returns a new object on every       *)
(* render, so on every render refreshAccessToken, logout, login and        *)
(* checkTokenExpiration are new closures over the rendered state and the   *)
(* interval effect (deps [accessToken, checkTokenExpiration]) runs again:  *)
(* its cleanup, then its body.                                             *)
(***************************************************************************)
\* cleanup of the interval effect: clearInterval(refreshIntervalRef.current)
\* when the ref is set; the number of intervals still armed afterwards
IntervalCleanupBug(ref, live) == live
IntervalCleanup(ref, live) == IF ref = "live" THEN live - 1 ELSE live

\* body of the interval effect: setInterval only when accessToken is truthy
IntervalArmedBug(a) == TRUE
IntervalArmed(a) == a # NoToken

IntervalEffect(a) ==
  LET remaining == IntervalCleanup(refreshIntervalRef, liveIntervals) IN
  IF IntervalArmed(a)
  THEN /\ liveIntervals' = remaining + 1
       /\ refreshIntervalRef' = "live"
       /\ intervalDue' = now + TOKEN_REFRESH_INTERVAL
  ELSE /\ liveIntervals' = remaining
       /\ refreshIntervalRef' =
            IF refreshIntervalRef = "null" THEN "null" ELSE "cleared"
       /\ intervalDue' = NullDate

\* VaultProvider (mounted inside AuthProvider) reads accessToken and
\* isAuthenticated = !!accessToken from the context.
\* refreshVaults up to its await: nothing without an access token, else
\* setIsLoading(true) and the two fetches are issued
refreshVaults(a) ==
  IF a = NoToken THEN UNCHANGED vaultVars
  ELSE /\ vaultIsLoading' = TRUE
       /\ vaultCalls' = vaultCalls + 1
       /\ UNCHANGED <<vaults, memberships, isInitialized>>

\* the effect with deps [isAuthenticated, accessToken, refreshVaults]: it
\* runs when the rendered accessToken differs from that of the render
\* whose effects ran before
VaultEffect(a) ==
  IF a = closure[1] THEN UNCHANGED vaultVars
  ELSE IF a # NoToken THEN refreshVaults(a)
  ELSE /\ vaults' = <<>>
       /\ memberships' = <<>>
       /\ isInitialized' = FALSE
       /\ UNCHANGED <<vaultIsLoading, vaultCalls>>

\* the setters of one segment: the state React will render next
SetState(a, r, u, ae, re, l, dates) ==
  /\ pendingState' = <<a, r, u, ae, re, l>>
  /\ newObjects' = dates
  /\ UNCHANGED <<reactState, timerVars, effectVars, vaultVars>>

\* the queued values of the fields a segment does not set
PendingRefreshToken == pendingState[2]
PendingUser == pendingState[3]
PendingIsLoading == pendingState[6]

\* React has rendered every queued update: no useState of AuthProvider has
\* a queued value that is not Object.is its rendered value
Settled == pendingState = reactState /\ ~newObjects

\* the passive effects of the last render: the interval effect (its deps
\* change on every render), the effect of VaultProvider, and the callbacks
\* they register, which capture the values of that render
RunEffects ==
  /\ IntervalEffect(accessToken)
  /\ VaultEffect(accessToken)
  /\ closure' = Rendered

\* React runs the passive effects in a task of their own after the commit
PassiveEffects ==
  /\ effectsDue
  /\ RunEffects
  /\ effectsDue' = FALSE
  /\ last' = Ev(<<"render", 0>>, "effects", FALSE, Idle)
  /\ UNCHANGED <<reactState, queueVars, alert, store, now, appStateRef, procs,
                 storeQueue, callsLeft>>

\* React renders and commits the queued updates; passive effects of the
\* previous render that have not run yet are flushed first
Render ==
  /\ ~Settled
  /\ IF effectsDue THEN RunEffects
     ELSE UNCHANGED <<timerVars, vaultVars, closure>>
  /\ accessToken' = pendingState[1]
  /\ refreshToken' = pendingState[2]
  /\ user' = pendingState[3]
  /\ accessTokenExpiresAt' = pendingState[4]
  /\ refreshTokenExpiresAt' = pendingState[5]
  /\ isLoading' = pendingState[6]
  /\ newObjects' = FALSE
  /\ effectsDue' = TRUE
  /\ last' = Ev(<<"render", 0>>, "rendered", FALSE, Idle)
  /\ UNCHANGED <<pendingState, alert, store, now, appStateRef, procs,
                 storeQueue, callsLeft>>

\* nothing is queued and no effect is due: the clock, whose steps are tens
\* of seconds, moves only then.  What happens before a render or before its
\* effects (a promise resolves, the interval fires, the user or the
\* operating system acts) runs with the closures it finds.
Quiescent == Settled /\ ~effectsDue

\* only isLoading is set
setIsLoading(l) ==
  SetState(pendingState[1], pendingState[2], pendingState[3], pendingState[4],
           pendingState[5], l, newObjects)

\* setTokenState: the four setters, and setUser when the access token decodes
UserAfter(access, u) ==
  IF decodeJWT(access) # NullPayload THEN extractUserInfo(decodeJWT(access)) ELSE u
setTokenStateBug(access, refresh, accessExpiry, refreshExpiry, l) ==
  SetState(access, NoToken, UserAfter(access, PendingUser), accessExpiry,
           refreshExpiry, l, TRUE)
setTokenState(access, refresh, accessExpiry, refreshExpiry, l) ==
  SetState(access, refresh, UserAfter(access, PendingUser), accessExpiry,
           refreshExpiry, l, TRUE)

\* logout's "Clear local state": the five setters to null
ClearStateBug(l) ==
  SetState(NoToken, PendingRefreshToken, NoUser, NullDate, NullDate, l, FALSE)
ClearState(l) ==
  SetState(NoToken, NoToken, NoUser, NullDate, NullDate, l, FALSE)

\* the expiry of an access token from the response's expiresIn:
\* "expiresIn ? now + expiresIn * 1000 : now + 5 * 60 * 1000", where both
\* undefined and 0 are falsy
AccessExpiry(expiresIn, t) ==
  IF expiresIn # NoExpiresIn /\ expiresIn # 0
  THEN t + expiresIn * 1000
  ELSE t + DEFAULT_ACCESS_TTL

\* login: the refresh token's own exp claim, else 24 h
LoginRefreshExpiry(refresh, t) ==
  IF decodeJWT(refresh) # NullPayload /\ decodeJWT(refresh).exp # 0
  THEN decodeJWT(refresh).exp * 1000
  ELSE t + DEFAULT_REFRESH_TTL

(***************************************************************************)
(* Initial state: AuthProvider has mounted.  useState gave the initial     *)
(* values, the mount effects ran: initializeAuth is suspended in           *)
(* loadTokens, no interval is armed (accessToken is null), the AppState    *)
(* listener is registered.                                                 *)
(***************************************************************************)
\* stores: what the store may hold; calls: the calls the run may make
InitWith(stores, calls) ==
  /\ accessToken = NoToken
  /\ refreshToken = NoToken
  /\ user = NoUser
  /\ accessTokenExpiresAt = NullDate
  /\ refreshTokenExpiresAt = NullDate
  /\ isLoading = TRUE
  /\ store \in stores
  /\ now = StartNow
  /\ appStateRef = "active"
  /\ vaults = <<>>
  /\ memberships = <<>>
  /\ isInitialized = FALSE
  /\ vaultIsLoading = FALSE
  /\ vaultCalls = 0
  /\ pendingState = <<NoToken, NoToken, NoUser, NullDate, NullDate, TRUE>>
  /\ alert = NoAlert
  /\ newObjects = FALSE
  /\ effectsDue = FALSE
  /\ closure = <<NoToken, NoToken, NullDate, NullDate>>
  /\ liveIntervals = 0
  /\ refreshIntervalRef = "null"
  /\ intervalDue = NullDate
  /\ procs = [p \in ProcIds |->
                IF p = InitId THEN [Idle EXCEPT !.pc = "load", !.solo = TRUE]
                ELSE Idle]
  /\ storeQueue = <<>>
  /\ callsLeft = calls
  /\ last = NoEvent

Init == InitWith(InitialStores, MaxCalls)

(***************************************************************************)
(* The secure store.  setItemAsync and deleteItemAsync take effect when    *)
(* they complete; the calls issued and not yet completed (storeQueue, in   *)
(* the order of issue) complete in any order; either may reject, and then  *)
(* changes nothing.                                                        *)
(***************************************************************************)
StoreTurn(me) == \E k \in 1..Len(storeQueue) : storeQueue[k] = me
\* the calls still pending once that of me has completed
Completed(q, me) == SelectSeq(q, LAMBDA p : p # me)

\* saveTokens: SecureStore.setItemAsync(TOKENS_KEY, JSON.stringify(tokens))
saveTokensBug(tokens, ok) == store
saveTokens(tokens, ok) == IF ok THEN StoreWith(JSONstringify(tokens)) ELSE store

\* clearTokens: SecureStore.deleteItemAsync(TOKENS_KEY)
clearTokensBug(ok) == store
clearTokens(ok) == IF ok THEN EmptyStore ELSE store

\* loadTokens: the parsed item, or null (NoTokens) when there is none, the
\* read throws or JSON.parse throws
loadTokensBug(readOk) ==
  IF store = EmptyStore THEN NoTokens
  ELSE IF ~store[1].parses THEN NoTokens
  ELSE store[1].value
loadTokens(readOk) ==
  IF ~readOk \/ store = EmptyStore THEN NoTokens
  ELSE IF ~store[1].parses THEN NoTokens
  ELSE store[1].value

(***************************************************************************)
(* initializeAuth                                                          *)
(***************************************************************************)
\* "Check if refresh token is still valid": refreshExpiry > now
RefreshStillValidBug(refreshExpiry, t) == refreshExpiry >= t
RefreshStillValid(refreshExpiry, t) == refreshExpiry > t

\* loadTokens has resolved: the rest of initializeAuth up to its next await.
\* (When the access token has expired the source calls setRefreshToken once
\* more with the value setTokenState has just set: no further change.)
InitLoaded(readOk) ==
  LET me == procs[InitId]
      storedTokens == loadTokens(readOk)
      accessExpiry == NewDate(storedTokens.accessTokenExpiresAt)
      refreshExpiry == NewDate(storedTokens.refreshTokenExpiresAt)
      \* the invocation, with whether the read threw, for the record of the step
      read == [me EXCEPT !.rejected = ~readOk]
  IN
  /\ me.pc = "load"
  /\ IF storedTokens = NoTokens
     THEN /\ setIsLoading(FALSE)
          /\ procs' = [procs EXCEPT ![InitId] = Idle]
          /\ last' = Ev(InitId, "noTokens", FALSE, read)
          /\ UNCHANGED storeQueue
     ELSE IF RefreshStillValid(refreshExpiry, now)
     THEN /\ setTokenState(storedTokens.accessToken,
                           storedTokens.refreshToken,
                           accessExpiry, refreshExpiry, FALSE)
          /\ procs' = [procs EXCEPT ![InitId] = Idle]
          /\ last' = Ev(InitId, "restored", FALSE,
                        [read EXCEPT !.pending = storedTokens])
          /\ UNCHANGED storeQueue
     ELSE /\ procs' = [procs EXCEPT ![InitId] =
                         [me EXCEPT !.pc = "clear", !.pending = storedTokens]]
          /\ storeQueue' = Append(storeQueue, InitId)
          /\ last' = Ev(InitId, "expired", FALSE, read)
          /\ UNCHANGED <<reactState, queueVars, vaultVars, timerVars, effectVars>>
  /\ UNCHANGED <<store, now, appStateRef, callsLeft, alert>>

\* clearTokens has resolved or rejected: catch, finally
InitCleared(ok) ==
  LET me == procs[InitId] IN
  /\ me.pc = "clear"
  /\ StoreTurn(InitId)
  /\ store' = clearTokens(ok)
  /\ storeQueue' = Completed(storeQueue, InitId)
  /\ setIsLoading(FALSE)
  /\ procs' = [procs EXCEPT ![InitId] = Idle]
  /\ last' = Ev(InitId, IF ok THEN "cleared" ELSE "clearFailed", FALSE, me)
  /\ UNCHANGED <<now, appStateRef, callsLeft, alert>>

(***************************************************************************)
(* What the identity provider and the browser can answer                   *)
(***************************************************************************)
\* promptAsync: success with a code, the user cancels, or it throws
PromptResults == {"success", "cancel", "throw"}

\* exchangeCodeAsync / refreshAsync: it throws, or a TokenResponse whose
\* accessToken, refreshToken and expiresIn may each be missing
TokenResponses ==
  [throws : {FALSE}, accessToken : AccessTokens \cup {NoToken},
   refreshToken : RefreshTokens \cup {NoToken}, expiresIn : ExpiresInChoices]
Thrown ==
  [throws |-> TRUE, accessToken |-> NoToken, refreshToken |-> NoToken,
   expiresIn |-> NoExpiresIn]
Responses == TokenResponses \cup {Thrown}

(***************************************************************************)
(* login                                                                   *)
(***************************************************************************)
\* "finally { setIsLoading(false) }" of login
LoginFinallyBug(l) == l
LoginFinally(l) == FALSE

\* SignInScreen is rendered when the session is neither loading nor
\* authenticated (app/index.tsx); its button calls login()
LoginStart ==
  /\ ~Active(LoginId)
  /\ ~isLoading
  /\ accessToken = NoToken
  /\ callsLeft > 0
  /\ callsLeft' = callsLeft - 1
  /\ setIsLoading(TRUE)
  /\ procs' = StartProc(LoginId, [Idle EXCEPT !.pc = "prompt"])
  /\ last' = Ev(LoginId, "start", FALSE, Idle)
  /\ UNCHANGED <<store, now, appStateRef, storeQueue, alert>>

\* promptAsync has resolved or thrown
LoginPrompted(result) ==
  LET me == procs[LoginId] IN
  /\ me.pc = "prompt"
  /\ IF result = "success"
     THEN /\ procs' = [procs EXCEPT ![LoginId] = [me EXCEPT !.pc = "exchange"]]
          /\ last' = Ev(LoginId, "prompted", FALSE, me)
          /\ UNCHANGED <<reactState, queueVars, vaultVars, timerVars, effectVars>>
     ELSE /\ setIsLoading(LoginFinally(PendingIsLoading))
          /\ procs' = [procs EXCEPT ![LoginId] = Idle]
          /\ last' = Ev(LoginId, IF result = "throw" THEN "promptThrew" ELSE "cancelled",
                        FALSE, me)
  /\ UNCHANGED <<store, now, appStateRef, storeQueue, callsLeft, alert>>

\* exchangeCodeAsync has resolved or thrown
LoginExchanged(resp) ==
  LET me == procs[LoginId]
      accessExpiry == AccessExpiry(resp.expiresIn, now)
      refreshExpiry == LoginRefreshExpiry(resp.refreshToken, now)
      tokens == StoredTokens(resp.accessToken, resp.refreshToken,
                             accessExpiry, refreshExpiry)
  IN
  /\ me.pc = "exchange"
  /\ IF ~resp.throws /\ resp.accessToken # NoToken /\ resp.refreshToken # NoToken
     THEN /\ setTokenState(resp.accessToken, resp.refreshToken,
                           accessExpiry, refreshExpiry, PendingIsLoading)
          /\ procs' = [procs EXCEPT ![LoginId] =
                         [me EXCEPT !.pc = "save", !.pending = tokens]]
          /\ storeQueue' = Append(storeQueue, LoginId)
          /\ last' = Ev(LoginId, "exchanged", FALSE,
                        [me EXCEPT !.pending = tokens, !.resp = resp])
     ELSE /\ setIsLoading(LoginFinally(PendingIsLoading))
          /\ procs' = [procs EXCEPT ![LoginId] = Idle]
          /\ last' = Ev(LoginId, IF resp.throws THEN "exchangeThrew" ELSE "noTokens",
                        FALSE, me)
          /\ UNCHANGED storeQueue
  /\ UNCHANGED <<store, now, appStateRef, callsLeft, alert>>

\* saveTokens has resolved or rejected: catch, finally
LoginSaved(ok) ==
  LET me == procs[LoginId] IN
  /\ me.pc = "save"
  /\ StoreTurn(LoginId)
  /\ store' = saveTokens(me.pending, ok)
  /\ storeQueue' = Completed(storeQueue, LoginId)
  /\ setIsLoading(LoginFinally(PendingIsLoading))
  /\ procs' = [procs EXCEPT ![LoginId] = Idle]
  /\ last' = Ev(LoginId, IF ok THEN "saved" ELSE "saveFailed", FALSE, me)
  /\ UNCHANGED <<now, appStateRef, callsLeft, alert>>

(***************************************************************************)
(* logout, called by the user or by refreshAccessToken's catch.  me is the *)
(* invocation running it: one of LogoutIds, or the refresh forcing it.     *)
(***************************************************************************)
\* where logout first suspends: the revocation call is made only when the
\* captured accessToken is truthy (discovery.revocationEndpoint always is)
LogoutFirstPc(access) == IF access # NoToken THEN "revoke" ELSE "clear"

\* logout from its start to its first await; q is the store queue it finds
LogoutEnterBug(me, pc, q) ==
  IF pc = "revoke"
  THEN /\ setIsLoading(PendingIsLoading)
       /\ storeQueue' = q
  ELSE /\ ClearState(PendingIsLoading)
       /\ storeQueue' = Append(q, me)
LogoutEnter(me, pc, q) ==
  IF pc = "revoke"
  THEN /\ setIsLoading(TRUE)
       /\ storeQueue' = q
  ELSE /\ ClearState(TRUE)
       /\ storeQueue' = Append(q, me)

\* a logout() slot that is free; the lowest one is taken.  logout has no
\* re-entry guard: a call made while another is in progress runs beside it
FreeLogout == {p \in LogoutIds : ~Active(p)}
LowestFreeLogout == CHOOSE p \in FreeLogout : \A q \in FreeLogout : p[2] <= q[2]

\* the sign-out buttons are on screens rendered when the session is
\* authenticated, and are disabled while isLoading.  handleLogout opens an
\* Alert whose "Sign Out" button holds the logout of the render that was on
\* screen when the button was pressed
SignOutPressed ==
  /\ alert = NoAlert
  /\ ~isLoading
  /\ accessToken # NoToken
  /\ callsLeft > 0
  /\ alert' = <<accessToken>>
  /\ last' = Ev(<<"alert", 0>>, "shown", FALSE, Idle)
  /\ UNCHANGED <<reactState, queueVars, vaultVars, timerVars, effectVars, store,
                 now, appStateRef, procs, storeQueue, callsLeft>>

\* "Cancel" in the Alert
AlertDismissed ==
  /\ alert # NoAlert
  /\ alert' = NoAlert
  /\ last' = Ev(<<"alert", 0>>, "cancelled", FALSE, Idle)
  /\ UNCHANGED <<reactState, queueVars, vaultVars, timerVars, effectVars, store,
                 now, appStateRef, procs, storeQueue, callsLeft>>

\* "Sign Out" in the Alert: the captured logout() runs, whatever the session
\* has become since the button was pressed
LogoutStart ==
  LET pc == LogoutFirstPc(alert[1]) IN
  /\ alert # NoAlert
  /\ FreeLogout # {}
  /\ callsLeft > 0
  /\ callsLeft' = callsLeft - 1
  /\ alert' = NoAlert
  /\ LogoutEnter(LowestFreeLogout, pc, storeQueue)
  /\ procs' = StartProc(LowestFreeLogout,
                        [Idle EXCEPT !.pc = pc, !.access = alert[1]])
  /\ last' = Ev(LowestFreeLogout, "start", FALSE, Idle)
  /\ UNCHANGED <<store, now, appStateRef>>

\* the try/catch around revokeAsync: whether logout goes on to clear the
\* state after the call resolved (ok) or threw
RevocationSwallowedBug(ok) == ok
RevocationSwallowed(ok) == TRUE

\* revokeAsync has resolved or thrown: clear the state, issue clearTokens
LogoutRevoked(me, ok) ==
  /\ procs[me].pc = "revoke"
  /\ IF RevocationSwallowed(ok)
     THEN /\ ClearState(PendingIsLoading)
          /\ storeQueue' = Append(storeQueue, me)
          /\ procs' = [procs EXCEPT ![me] = [procs[me] EXCEPT !.pc = "clear"]]
     ELSE /\ setIsLoading(FALSE)
          /\ procs' = [procs EXCEPT ![me] = Idle]
          /\ UNCHANGED storeQueue
  /\ last' = Ev(me, IF ok THEN "revoked" ELSE "revokeFailed", FALSE, procs[me])
  /\ UNCHANGED <<store, now, appStateRef, callsLeft, alert>>

\* clearTokens has resolved (open the end-session page) or rejected (catch,
\* finally)
LogoutCleared(me, ok) ==
  /\ procs[me].pc = "clear"
  /\ StoreTurn(me)
  /\ store' = clearTokens(ok)
  /\ storeQueue' = Completed(storeQueue, me)
  /\ IF ok
     THEN /\ procs' = [procs EXCEPT ![me] = [procs[me] EXCEPT !.pc = "endSession"]]
          /\ UNCHANGED <<reactState, queueVars, vaultVars, timerVars, effectVars>>
     ELSE /\ procs' = [procs EXCEPT ![me] = Idle]
          /\ setIsLoading(FALSE)
  /\ last' = Ev(me, IF ok THEN "cleared" ELSE "clearFailed", FALSE, procs[me])
  /\ UNCHANGED <<now, appStateRef, callsLeft, alert>>

\* openAuthSessionAsync has resolved or thrown: finally
LogoutEnded(me, ok) ==
  /\ procs[me].pc = "endSession"
  /\ setIsLoading(FALSE)
  /\ procs' = [procs EXCEPT ![me] = Idle]
  /\ last' = Ev(me, IF ok THEN "ended" ELSE "endSessionThrew", FALSE, procs[me])
  /\ UNCHANGED <<store, now, appStateRef, storeQueue, callsLeft, alert>>

(***************************************************************************)
(* refreshAccessToken                                                      *)
(***************************************************************************)
\* a refresh slot that is free; the lowest one is taken
FreeRefresh == {p \in RefreshIds : ~Active(p)}
LowestFree == CHOOSE p \in FreeRefresh : \A q \in FreeRefresh : p[2] <= q[2]

\* refreshAccessToken() from its call to its first await, c being the
\* values its closure captured: nothing when the refreshToken is null, else
\* AuthSession.refreshAsync is issued
refreshAccessTokenBug(src, c) ==
  /\ FreeRefresh # {}
  /\ callsLeft > 0
  /\ callsLeft' = callsLeft - 1
  /\ procs' = StartProc(LowestFree,
                [Idle EXCEPT !.pc = "refreshAsync",
                             !.access = c[1],
                             !.refresh = c[2],
                             !.refreshExp = c[4]])
  /\ last' = Ev(<<src, LowestFree[2]>>, "refreshing", TRUE, Idle)
refreshAccessToken(src, c) ==
  IF c[2] = NoToken
  THEN /\ last' = Ev(<<src, 0>>, "noRefreshToken", TRUE, Idle)
       /\ UNCHANGED <<procs, callsLeft>>
  ELSE /\ FreeRefresh # {}
       /\ callsLeft > 0
       /\ callsLeft' = callsLeft - 1
       /\ procs' = StartProc(LowestFree,
                     [Idle EXCEPT !.pc = "refreshAsync",
                                  !.access = c[1],
                                  !.refresh = c[2],
                                  !.refreshExp = c[4]])
       /\ last' = Ev(<<src, LowestFree[2]>>, "refreshing", TRUE, Idle)

\* the refresh token kept by a refresh: the response's, else the captured one
NewRefreshBug(respRefresh, captured) == captured
NewRefresh(respRefresh, captured) ==
  IF respRefresh # NoToken THEN respRefresh ELSE captured

\* the refresh-token expiry kept by a refresh: the captured one, else 24 h
NewRefreshExpiryBug(captured, t) == t + DEFAULT_REFRESH_TTL
NewRefreshExpiry(captured, t) ==
  IF captured # NullDate THEN captured ELSE t + DEFAULT_REFRESH_TTL

\* refreshAsync has resolved or thrown
RefreshResponded(me, resp) ==
  LET rec == procs[me]
      newAccessExpiry == AccessExpiry(resp.expiresIn, now)
      newRefreshExpiry == NewRefreshExpiry(rec.refreshExp, now)
      newRefresh == NewRefresh(resp.refreshToken, rec.refresh)
      tokens == StoredTokens(resp.accessToken, newRefresh,
                             newAccessExpiry, newRefreshExpiry)
      pc == LogoutFirstPc(rec.access)
  IN
  /\ rec.pc = "refreshAsync"
  /\ IF resp.throws /\ Escapes("refresh", "refreshThrew")
     THEN \* no catch clause: the invocation rejects
          /\ procs' = [procs EXCEPT ![me] = Idle]
          /\ last' = Ev(me, "refreshThrew", FALSE, [rec EXCEPT !.rejected = TRUE])
          /\ UNCHANGED <<reactState, queueVars, vaultVars, timerVars, effectVars,
                         storeQueue>>
     ELSE IF resp.throws
     THEN /\ LogoutEnter(me, pc, storeQueue)
          /\ procs' = [procs EXCEPT ![me] = [rec EXCEPT !.pc = pc, !.rejected = TRUE]]
          /\ last' = Ev(me, "refreshThrew", FALSE, [rec EXCEPT !.rejected = TRUE])
     ELSE IF resp.accessToken # NoToken
     THEN /\ setTokenState(resp.accessToken, newRefresh,
                           newAccessExpiry, newRefreshExpiry, PendingIsLoading)
          /\ procs' = [procs EXCEPT ![me] =
                         [rec EXCEPT !.pc = "save", !.pending = tokens]]
          /\ storeQueue' = Append(storeQueue, me)
          /\ last' = Ev(me, "refreshed", FALSE,
                        [rec EXCEPT !.pending = tokens, !.resp = resp])
     ELSE /\ procs' = [procs EXCEPT ![me] = Idle]
          /\ last' = Ev(me, "noAccessToken", FALSE, rec)
          /\ UNCHANGED <<reactState, queueVars, vaultVars, timerVars, effectVars, storeQueue>>
  /\ UNCHANGED <<store, now, appStateRef, callsLeft, alert>>

\* saveTokens has resolved (done) or rejected (catch: logout)
RefreshSaved(me, ok) ==
  LET rec == procs[me]
      pc == LogoutFirstPc(rec.access)
  IN
  /\ rec.pc = "save"
  /\ StoreTurn(me)
  /\ store' = saveTokens(rec.pending, ok)
  /\ IF ok
     THEN /\ procs' = [procs EXCEPT ![me] = Idle]
          /\ storeQueue' = Completed(storeQueue, me)
          /\ UNCHANGED <<reactState, queueVars, vaultVars, timerVars, effectVars>>
     ELSE IF Escapes("refresh", "saveFailed")
     THEN \* no catch clause: the invocation rejects
          /\ procs' = [procs EXCEPT ![me] = Idle]
          /\ storeQueue' = Completed(storeQueue, me)
          /\ UNCHANGED <<reactState, queueVars, vaultVars, timerVars, effectVars>>
     ELSE /\ LogoutEnter(me, pc, Completed(storeQueue, me))
          /\ procs' = [procs EXCEPT ![me] = [rec EXCEPT !.pc = pc]]
  /\ last' = Ev(me, IF ok THEN "saved" ELSE "saveFailed", FALSE, rec)
  /\ UNCHANGED <<now, appStateRef, callsLeft, alert>>

(***************************************************************************)
(* checkTokenExpiration and its two triggers                               *)
(***************************************************************************)
\* whether checkTokenExpiration calls refreshAccessToken
NeedsRefreshBug(access, accessExpiry, t) ==
  /\ access # NoToken
  /\ accessExpiry # NullDate
  /\ accessExpiry - t < REFRESH_THRESHOLD
  /\ accessExpiry - t > 0
NeedsRefresh(access, accessExpiry, t) ==
  IF access = NoToken \/ accessExpiry = NullDate THEN FALSE
  ELSE LET timeUntilExpiry == accessExpiry - t IN
       \/ timeUntilExpiry < REFRESH_THRESHOLD /\ timeUntilExpiry > 0
       \/ timeUntilExpiry <= 0

\* called by the interval and by the AppState listener: the closure the
\* effects registered
checkTokenExpiration(src) ==
  IF NeedsRefresh(closure[1], closure[3], now)
  THEN refreshAccessToken(src, closure)
  ELSE /\ last' = Ev(<<src, 0>>, "skipped", FALSE, Idle)
       /\ UNCHANGED <<procs, callsLeft>>

\* the armed interval fires
TimerTick ==
  /\ liveIntervals > 0
  /\ refreshIntervalRef = "live"
  /\ now >= intervalDue
  /\ intervalDue' = now + TOKEN_REFRESH_INTERVAL
  /\ checkTokenExpiration("timer")
  /\ UNCHANGED <<reactState, queueVars, alert, vaultVars, store, now, appStateRef, liveIntervals,
                 refreshIntervalRef, effectVars, storeQueue>>

\* the AppState 'change' listener
AppStates == {"active", "background"}
ComesToForeground(prev, nextState) ==
  prev \in {"inactive", "background"} /\ nextState = "active"

AppStateChange(nextState) ==
  /\ callsLeft > 0
  /\ nextState # appStateRef
  /\ appStateRef' = nextState
  /\ IF ComesToForeground(appStateRef, nextState)
     THEN checkTokenExpiration("foreground")
     ELSE /\ last' = Ev(<<"appState", 0>>, nextState, FALSE, Idle)
          /\ UNCHANGED <<procs, callsLeft>>
  /\ UNCHANGED <<reactState, queueVars, alert, vaultVars, timerVars, effectVars, store, now, storeQueue>>

\* time passes
Advance(d) ==
  /\ Quiescent
  /\ callsLeft > 0
  /\ now + d <= MaxNow
  /\ now' = now + d
  /\ last' = Ev(<<"clock", 0>>, "advanced", FALSE, Idle)
  /\ UNCHANGED <<reactState, queueVars, alert, vaultVars, timerVars, effectVars, store, appStateRef, procs,
                 storeQueue,
                 callsLeft>>

(***************************************************************************)
(* The specification                                                       *)
(***************************************************************************)
LogoutRunners == LogoutIds \cup RefreshIds

Next ==
  \/ \E readOk \in BOOLEAN : InitLoaded(readOk)
  \/ \E ok \in BOOLEAN : InitCleared(ok)
  \/ LoginStart
  \/ \E result \in PromptResults : LoginPrompted(result)
  \/ \E resp \in Responses : LoginExchanged(resp)
  \/ \E ok \in BOOLEAN : LoginSaved(ok)
  \/ SignOutPressed
  \/ AlertDismissed
  \/ LogoutStart
  \/ \E me \in LogoutRunners, ok \in BOOLEAN : LogoutRevoked(me, ok)
  \/ \E me \in LogoutRunners, ok \in BOOLEAN : LogoutCleared(me, ok)
  \/ \E me \in LogoutRunners, ok \in BOOLEAN : LogoutEnded(me, ok)
  \/ \E me \in RefreshIds, resp \in Responses : RefreshResponded(me, resp)
  \/ \E me \in RefreshIds, ok \in BOOLEAN : RefreshSaved(me, ok)
  \/ TimerTick
  \/ \E nextState \in AppStates : AppStateChange(nextState)
  \/ \E d \in AdvanceSteps : Advance(d)
  \/ Render
  \/ PassiveEffects

Spec == Init /\ [][Next]_vars

(***************************************************************************)
(* The context value also hands logout and refreshAccessToken to every     *)
(* consumer (useAuth): HomeScreen calls refreshAccessToken from a button.  *)
(* In SpecApi a consumer calls them in any state of the session, whatever   *)
(* the routed screens allow; the clock stands still, and the checks are    *)
(* those of a foreground resume.                                           *)
(***************************************************************************)
\* a consumer calls logout()
LogoutCall ==
  LET pc == LogoutFirstPc(accessToken) IN
  /\ FreeLogout # {}
  /\ callsLeft > 0
  /\ callsLeft' = callsLeft - 1
  /\ LogoutEnter(LowestFreeLogout, pc, storeQueue)
  /\ procs' = StartProc(LowestFreeLogout,
                        [Idle EXCEPT !.pc = pc, !.access = accessToken])
  /\ last' = Ev(LowestFreeLogout, "start", FALSE, Idle)
  /\ UNCHANGED <<store, now, appStateRef, alert>>

\* a consumer calls refreshAccessToken()
RefreshCall ==
  /\ refreshAccessToken("caller", Rendered)
  /\ UNCHANGED <<reactState, queueVars, alert, vaultVars, timerVars, effectVars, store, now, appStateRef,
                 storeQueue>>

NextApi ==
  \/ \E readOk \in BOOLEAN : InitLoaded(readOk)
  \/ \E ok \in BOOLEAN : InitCleared(ok)
  \/ LoginStart
  \/ \E result \in PromptResults : LoginPrompted(result)
  \/ \E resp \in Responses : LoginExchanged(resp)
  \/ \E ok \in BOOLEAN : LoginSaved(ok)
  \/ LogoutCall
  \/ \E me \in LogoutRunners, ok \in BOOLEAN : LogoutRevoked(me, ok)
  \/ \E me \in LogoutRunners, ok \in BOOLEAN : LogoutCleared(me, ok)
  \/ \E me \in LogoutRunners, ok \in BOOLEAN : LogoutEnded(me, ok)
  \/ RefreshCall
  \/ \E me \in RefreshIds, resp \in Responses : RefreshResponded(me, resp)
  \/ \E me \in RefreshIds, ok \in BOOLEAN : RefreshSaved(me, ok)
  \/ \E nextState \in AppStates : AppStateChange(nextState)
  \/ Render
  \/ PassiveEffects

SpecApi == Init /\ [][NextApi]_vars

(***************************************************************************)
(* Vocabulary of the properties                                            *)
(***************************************************************************)
\* the context value of the last render: isAuthenticated: !!accessToken
isAuthenticated == accessToken # NoToken

\* The session an operation leaves behind is the React state with the
\* setters it has called applied: what the next render shows.
session ==
  [accessToken |-> pendingState[1], refreshToken |-> pendingState[2],
   user |-> pendingState[3], accessTokenExpiresAt |-> pendingState[4],
   refreshTokenExpiresAt |-> pendingState[5], isLoading |-> pendingState[6]]

Authenticated == session.accessToken # NoToken

\* every session field is absent
Unauthenticated ==
  /\ session.accessToken = NoToken
  /\ session.refreshToken = NoToken
  /\ session.user = NoUser
  /\ session.accessTokenExpiresAt = NullDate
  /\ session.refreshTokenExpiresAt = NullDate

\* what a cold start would load from the store as it is
PersistedTokens == loadTokens(TRUE)

\* the store holds exactly the four in-memory values
StoreMatchesSession ==
  store = StoreWith(JSONstringify(
            StoredTokens(session.accessToken, session.refreshToken,
                         session.accessTokenExpiresAt,
                         session.refreshTokenExpiresAt)))

NothingInProgress == \A p \in ProcIds : ~Active(p)
RefreshCallsInFlight == {p \in RefreshIds : procs[p].pc = "refreshAsync"}

\* the steps by which an invocation returns
LogoutReturned == {"ended", "endSessionThrew", "clearFailed"}
LoginAbandoned == {"cancelled", "promptThrew", "exchangeThrew"}
InitReturned == {"noTokens", "restored", "cleared", "clearFailed"}
CheckRan ==
  /\ last.op \in {"timer", "foreground"}
  /\ last.ev \in {"skipped", "refreshing", "noRefreshToken"}

(***************************************************************************)
(* C1.  At most one AuthSession.refreshAsync call is in flight at any      *)
(* time: a timer tick and a foreground resume (or two ticks) that both     *)
(* decide to refresh while a refresh has not completed issue one call.     *)
(* The source has no in-flight guard: the statement is violated.           *)
(***************************************************************************)
C1_OneRefreshInFlight == Cardinality(RefreshCallsInFlight) <= 1

(***************************************************************************)
(* C2.  Forced logout on refresh failure: a refreshAccessToken invocation  *)
(* whose refreshAsync call threw, and whose logout ran to its end, returns *)
(* with every session field absent and with the item deleted from the      *)
(* store.  Violated: a second refresh, started while the first is in its   *)
(* logout, installs its tokens before the first returns (see C1).          *)
(***************************************************************************)
C2_FailedRefreshReturned ==
  /\ last.op = "refresh"
  /\ last.rejected
  /\ last.ev \in {"ended", "endSessionThrew"}

C2_ForcedLogout ==
  C2_FailedRefreshReturned => Unauthenticated /\ store = EmptyStore

(***************************************************************************)
(* C3.  Session field atomicity: in every reachable state accessToken is   *)
(* present if and only if refreshToken is present.                         *)
(***************************************************************************)
C3_TokensTogether ==
  /\ (accessToken = NoToken) <=> (refreshToken = NoToken)
  /\ (session.accessToken = NoToken) <=> (session.refreshToken = NoToken)

\* a logout has cleared the state while a refresh was still in progress
C3_Witness ==
  /\ last.op = "logout"
  /\ last.ev \in {"revoked", "revokeFailed"}
  /\ \E p \in RefreshIds : Active(p)
  /\ session.accessToken = NoToken
  /\ session.refreshToken = NoToken

(***************************************************************************)
(* C4.  Store/memory convergence: when a login, refresh or logout has      *)
(* returned and no invocation is in progress, the store holds exactly the  *)
(* in-memory tokens and expiries when the session is authenticated and no  *)
(* token data when it is not.  Violated: login sets the state before it    *)
(* persists and keeps the state when the write rejects.                    *)
(***************************************************************************)
StoreAgrees ==
  IF Authenticated THEN StoreMatchesSession ELSE PersistedTokens = NoTokens

\* a login, refresh or logout that changed the session or the store has
\* just returned
MutationReturned ==
  /\ last.op \in {"login", "logout", "refresh"}
  /\ last.ev \in {"saved", "saveFailed"} \cup LogoutReturned

C4_Convergence ==
  (NothingInProgress /\ MutationReturned) => StoreAgrees

(***************************************************************************)
(* C5.  Successful login: a login() from the unauthenticated state whose   *)
(* prompt succeeded, whose exchange returned both tokens, whose store      *)
(* write succeeded and that no other invocation overlapped returns with    *)
(* the session holding exactly the two tokens of the response, both        *)
(* expiries set, the same four values in the store and isLoading false.    *)
(***************************************************************************)
C5_LoginReturnedOk == last.op = "login" /\ last.ev = "saved" /\ last.solo

C5_SuccessfulLogin ==
  C5_LoginReturnedOk =>
    /\ Authenticated
    /\ session.accessToken = last.pending.accessToken
    /\ session.refreshToken = last.pending.refreshToken
    /\ session.accessTokenExpiresAt # NullDate
    /\ session.refreshTokenExpiresAt # NullDate
    /\ StoreMatchesSession
    /\ ~session.isLoading

C5_Witness ==
  /\ C5_LoginReturnedOk
  /\ session.accessToken = AccessA2
  /\ session.refreshToken = RefreshR2
  /\ StoreMatchesSession
  /\ ~session.isLoading

(***************************************************************************)
(* C6.  Failed or abandoned login changes nothing: the step by which       *)
(* login() returns after a cancelled prompt, a prompt that threw or an     *)
(* exchange that threw leaves the five session fields and the store as     *)
(* they were and isLoading false, and so do its earlier steps except for   *)
(* isLoading.                                                              *)
(***************************************************************************)
sessionFields ==
  <<session.accessToken, session.refreshToken, session.user,
    session.accessTokenExpiresAt, session.refreshTokenExpiresAt>>

C6_FailedLoginFrame ==
  [][ /\ (last'.op = "login" /\ last'.ev \in LoginAbandoned \cup {"start", "prompted"})
          => (sessionFields' = sessionFields /\ store' = store)
      /\ (last'.op = "login" /\ last'.ev \in LoginAbandoned) => ~session.isLoading'
    ]_vars

C6_Witness ==
  /\ last.op = "login"
  /\ last.ev = "exchangeThrew"
  /\ ~session.isLoading
  /\ Unauthenticated

(***************************************************************************)
(* C7.  Refresh trigger rule: a run of checkTokenExpiration calls          *)
(* refreshAccessToken if and only if an access token is present and        *)
(* accessTokenExpiresAt - now < 120 s, expired tokens included; the values *)
(* are those of the render the running callback belongs to.                *)
(***************************************************************************)
C7_TriggerRule ==
  CheckRan =>
    (last.invoked <=>
       (closure[1] # NoToken /\ closure[3] - now < 120000))

\* 119 s remaining: the check refreshes
C7_Witness ==
  /\ CheckRan
  /\ last.invoked
  /\ closure[3] - now = 119000

\* 121 s remaining: the check does not (reachable as well)
C7_Skips121 ==
  /\ CheckRan
  /\ ~last.invoked
  /\ closure[3] - now = 121000

(***************************************************************************)
(* C8.  Timer lifecycle: once the effects of a render have run, exactly    *)
(* one interval is armed when it shows the session authenticated and none  *)
(* when it does not, across logins, restores, logouts and refreshes that   *)
(* replace the access token; never is more than one armed.                 *)
(***************************************************************************)
C8_TimerLifecycle ==
  /\ liveIntervals <= 1
  /\ ~effectsDue =>
       /\ liveIntervals = (IF isAuthenticated THEN 1 ELSE 0)
       /\ isAuthenticated => refreshIntervalRef = "live"

\* the token of a refresh has been rendered in place of the one the refresh
\* started with: still one interval
C8_Witness ==
  /\ last.op = "render"
  /\ last.ev = "effects"
  /\ \E p \in RefreshIds : procs[p].pc = "save" /\ procs[p].access = AccessA1
  /\ accessToken = AccessA2
  /\ liveIntervals = 1

(***************************************************************************)
(* C9.  Cold start with an expired refresh token: when the restore loaded  *)
(* tokens whose refreshTokenExpiresAt <= now and its clearTokens call did  *)
(* not reject, it returns with the session unauthenticated, the item       *)
(* deleted and isLoading false.                                            *)
(***************************************************************************)
C9_RestoreReturnedExpired ==
  /\ last.op = "init"
  /\ last.ev \in InitReturned \ {"clearFailed"}
  /\ last.pending # NoTokens
  /\ NewDate(last.pending.refreshTokenExpiresAt) <= now

C9_ExpiredRefreshOnColdStart ==
  C9_RestoreReturnedExpired =>
    Unauthenticated /\ store = EmptyStore /\ ~session.isLoading

\* the boundary refreshTokenExpiresAt = now
C9_Witness ==
  /\ C9_RestoreReturnedExpired
  /\ NewDate(last.pending.refreshTokenExpiresAt) = now
  /\ Unauthenticated
  /\ store = EmptyStore

(***************************************************************************)
(* C10.  Cold start with a valid refresh token and an expired access       *)
(* token: the restore returns with isAuthenticated true, the session       *)
(* populated from the stored values, and no refreshAsync call issued.      *)
(***************************************************************************)
C10_RestoreReturnedStale ==
  /\ last.op = "init"
  /\ last.ev \in InitReturned
  /\ last.pending # NoTokens
  /\ NewDate(last.pending.refreshTokenExpiresAt) > now
  /\ NewDate(last.pending.accessTokenExpiresAt) < now

C10_StaleAccessOnColdStart ==
  C10_RestoreReturnedStale =>
    /\ Authenticated
    /\ session.accessToken = last.pending.accessToken
    /\ session.refreshToken = last.pending.refreshToken
    /\ session.accessTokenExpiresAt = NewDate(last.pending.accessTokenExpiresAt)
    /\ session.refreshTokenExpiresAt = NewDate(last.pending.refreshTokenExpiresAt)
    /\ \A p \in RefreshIds : ~Active(p)
    /\ callsLeft = MaxCalls

C10_Witness ==
  /\ C10_RestoreReturnedStale
  /\ session.accessToken = AccessA1
  /\ session.accessTokenExpiresAt < now
  /\ ~session.isLoading

(***************************************************************************)
(* C11.  Immediate refresh after a stale restore: when the restore has     *)
(* returned with a valid refresh token and an expired access token, a      *)
(* refreshAccessToken invocation is in progress as a consequence of the    *)
(* restore.  Violated: initializeAuth only calls setRefreshToken, and no   *)
(* effect calls refreshAccessToken; the first refresh waits for the first  *)
(* tick of the interval or for a foreground resume.                        *)
(***************************************************************************)
C11_RestoreReturnedStale ==
  /\ last.op = "init"
  /\ last.ev = "restored"
  /\ NewDate(last.pending.accessTokenExpiresAt) <= now

C11_ImmediateRefresh ==
  C11_RestoreReturnedStale => \E p \in RefreshIds : Active(p)

(***************************************************************************)
(* C12.  Cold start with an empty or unreadable store: when the read       *)
(* throws, finds no item or finds text that does not parse, the step in    *)
(* which loadTokens completes ends initializeAuth with the session         *)
(* unauthenticated and isLoading false, as for no tokens.                  *)
(***************************************************************************)
\* the read threw, no item, unparsable text
NothingReadable ==
  \/ last.rejected
  \/ store = EmptyStore
  \/ store = StoreWith(GarbageText)

C12_LoadCompleted ==
  /\ last.op = "init"
  /\ last.ev \in {"noTokens", "restored", "expired"}
  /\ NothingReadable

C12_UnreadableStore ==
  C12_LoadCompleted =>
    /\ last.ev = "noTokens"
    /\ ~last.escaped
    /\ Unauthenticated
    /\ ~session.isLoading
    /\ ~Active(InitId)

\* the read threw although the store holds tokens
C12_Witness ==
  /\ C12_LoadCompleted
  /\ last.rejected
  /\ PersistedTokens # NoTokens
  /\ Unauthenticated
  /\ ~session.isLoading

\* the item does not parse
C12_WitnessUnparsable ==
  /\ C12_LoadCompleted
  /\ store = StoreWith(GarbageText)
  /\ Unauthenticated

(***************************************************************************)
(* C13.  Logout step order: when a logout opens the end-session page (its  *)
(* clearTokens call has resolved), no token is in memory and none in the   *)
(* store.  Violated: a refresh that was in flight when the logout started  *)
(* sets its tokens between the logout's clearing of the state and the      *)
(* completion of its delete.                                               *)
(***************************************************************************)
EndSessionOpened ==
  /\ last.op \in {"logout", "refresh"}
  /\ last.ev = "cleared"

C13_EndSessionAfterClearing ==
  EndSessionOpened =>
    /\ session.accessToken = NoToken
    /\ session.refreshToken = NoToken
    /\ PersistedTokens = NoTokens

(***************************************************************************)
(* C14.  Logout does not wait for the end-session page: as soon as the     *)
(* revocation, the clearing of the state and the delete are done, logout   *)
(* has returned and isLoading is false.  Violated: logout awaits           *)
(* WebBrowser.openAuthSessionAsync and sets isLoading false in its         *)
(* finally, after that call.                                               *)
(***************************************************************************)
\* the invocation that took the last step
LastRunner == <<last.op, last.i>>

C14_ReturnsBeforeEndSession ==
  EndSessionOpened => ~session.isLoading /\ ~Active(LastRunner)

(***************************************************************************)
(* C14, as the source has it: when the delete has resolved the logout is   *)
(* still in progress, suspended in the end-session call, and isLoading is  *)
(* still true (for a logout no other invocation overlapped); the step in   *)
(* which that call resolves or throws ends the logout and sets isLoading   *)
(* false.                                                                  *)
(***************************************************************************)
EndSessionReturned ==
  /\ last.op \in {"logout", "refresh"}
  /\ last.ev \in {"ended", "endSessionThrew"}

C14_WaitsForEndSession ==
  /\ EndSessionOpened =>
       /\ procs[LastRunner].pc = "endSession"
       /\ last.solo => session.isLoading
  /\ EndSessionReturned => ~session.isLoading /\ ~Active(LastRunner)

C14_Witness ==
  /\ EndSessionOpened
  /\ last.op = "logout"
  /\ last.solo
  /\ session.isLoading
  /\ Unauthenticated
  /\ store = EmptyStore

(***************************************************************************)
(* C15.  Idempotence of logout: no step of a logout() that was called with *)
(* the session unauthenticated changes a session field; its delete leaves  *)
(* the store empty; nothing escapes; it returns with isLoading false, and  *)
(* with the session unauthenticated when no other invocation overlapped    *)
(* it.  Further calls find, and leave, the same state.                     *)
(***************************************************************************)
C15_IdempotentLogout ==
  [][ /\ (last'.op = "logout" /\ last'.ev = "start" /\ Unauthenticated)
          => (sessionFields' = sessionFields /\ store' = store)
      /\ (last'.op = "logout" /\ last'.ev \in LogoutReturned \cup {"cleared"}
            /\ last'.access = NoToken)
          => /\ sessionFields' = sessionFields
             /\ last'.ev = "cleared" => store' = EmptyStore
             /\ last'.ev # "cleared" => store' = store
             /\ ~last'.escaped
             /\ last'.ev \in LogoutReturned
                  => /\ ~session.isLoading'
                     /\ procs'[<<last'.op, last'.i>>].pc = "idle"
             /\ last'.solo => Unauthenticated'
    ]_vars

\* a second call has returned
C15_Witness ==
  /\ last.op = "logout"
  /\ last.ev \in {"ended", "endSessionThrew"}
  /\ last.access = NoToken
  /\ last.solo
  /\ callsLeft = 0
  /\ Unauthenticated
  /\ store = EmptyStore
  /\ ~session.isLoading

\* a call made while an earlier logout() was still in progress has returned
C15_WitnessOverlapping ==
  /\ last.op = "logout"
  /\ last.i = 2
  /\ last.ev \in LogoutReturned
  /\ last.access = NoToken
  /\ ~last.solo
  /\ Unauthenticated
  /\ store = EmptyStore
  /\ ~session.isLoading

(***************************************************************************)
(* C16.  Revocation is advisory: whether revokeAsync resolved or threw,    *)
(* the step that follows it clears every session field and issues the      *)
(* delete, and the logout's delete leaves the store empty: a failed        *)
(* revocation leads to the state a successful one leads to.                *)
(***************************************************************************)
InStoreQueue(p) == \E k \in 1..Len(storeQueue) : storeQueue[k] = p

C16_RevocationAdvisory ==
  /\ (last.op \in {"logout", "refresh"} /\ last.ev \in {"revoked", "revokeFailed"})
       => /\ Unauthenticated
          /\ procs[LastRunner].pc = "clear"
          /\ InStoreQueue(LastRunner)
          /\ ~last.escaped
  /\ EndSessionOpened => store = EmptyStore

C16_Witness ==
  /\ last.op = "logout"
  /\ last.ev = "revokeFailed"
  /\ Unauthenticated
  /\ procs[LastRunner].pc = "clear"
  /\ PersistedTokens # NoTokens

(***************************************************************************)
(* C17.  No error reaches the caller: whichever of the browser prompt, the *)
(* code exchange, the refresh call, the revocation call, a store write or  *)
(* delete and the end-session call throws, the exception is caught inside  *)
(* login, logout or refreshAccessToken: the function goes on (to its       *)
(* forced logout, or past the revocation) or returns normally, through     *)
(* its finally when it has one.                                            *)
(***************************************************************************)
C17_FailureStep ==
  /\ last.op \in {"login", "logout", "refresh"}
  /\ last.ev \in Failures

C17_NoErrorEscapes ==
  C17_FailureStep =>
    /\ ~last.escaped
    /\ \/ procs[LastRunner].pc \in {"revoke", "clear"}
       \/ ~Active(LastRunner) /\ ~session.isLoading

\* refreshAsync threw and then the delete of the forced logout rejected
C17_Witness ==
  /\ C17_FailureStep
  /\ last.op = "refresh"
  /\ last.ev = "clearFailed"
  /\ last.rejected
  /\ ~Active(LastRunner)
  /\ ~last.escaped

(***************************************************************************)
(* C18.  Refresh-token rotation: when refreshAsync has resolved with an    *)
(* access token, the session holds that access token, and the refresh      *)
(* token of the response when it carries one, else the refresh token the   *)
(* call started with; when the write has resolved the store holds the      *)
(* same two tokens.                                                        *)
(***************************************************************************)
RefreshSucceeded == last.op = "refresh" /\ last.ev = "refreshed"
RefreshPersisted == last.op = "refresh" /\ last.ev = "saved"

\* the refresh token the rule prescribes for the refresh of the last step
RotatedOrKept ==
  IF last.resp.refreshToken # NoToken THEN last.resp.refreshToken
  ELSE last.refresh

C18_RotationRule ==
  /\ RefreshSucceeded =>
       /\ last.resp.accessToken # NoToken
       /\ session.accessToken = last.resp.accessToken
       /\ session.refreshToken = RotatedOrKept
       /\ last.pending.accessToken = last.resp.accessToken
       /\ last.pending.refreshToken = RotatedOrKept
  /\ RefreshPersisted =>
       /\ PersistedTokens.accessToken = last.pending.accessToken
       /\ PersistedTokens.refreshToken = last.pending.refreshToken

\* no refresh token in the response: the one held before is kept
C18_Witness ==
  /\ RefreshPersisted
  /\ last.pending.refreshToken = RefreshR1
  /\ last.refresh = RefreshR1
  /\ session.refreshToken = RefreshR1
  /\ session.accessToken = AccessA2
  /\ StoreMatchesSession

\* the response rotates the refresh token
C18_WitnessRotated ==
  /\ RefreshPersisted
  /\ last.refresh = RefreshR1
  /\ session.refreshToken = RefreshR2
  /\ PersistedTokens.refreshToken = RefreshR2

(***************************************************************************)
(* C19.  A successful refresh keeps refreshTokenExpiresAt: in memory and   *)
(* in the store it is the value the call started with, whether or not the  *)
(* refresh token was rotated; accessTokenExpiresAt is computed anew from   *)
(* the time of the response.                                               *)
(***************************************************************************)
C19_RefreshExpiryKept ==
  /\ RefreshSucceeded =>
       /\ last.refreshExp # NullDate
       /\ session.refreshTokenExpiresAt = last.refreshExp
       /\ session.accessTokenExpiresAt > now
  /\ RefreshPersisted =>
       NewDate(PersistedTokens.refreshTokenExpiresAt) = last.refreshExp

\* the refresh token was rotated, its expiry was not touched
C19_Witness ==
  /\ RefreshSucceeded
  /\ last.refresh = RefreshR1
  /\ session.refreshToken = RefreshR2
  /\ session.refreshTokenExpiresAt = StartNow + 600000
  /\ session.accessTokenExpiresAt > now

(***************************************************************************)
(* C20.  refreshAccessToken with no refresh token is a no-op: a call made  *)
(* while refreshToken is absent starts no refreshAsync call and no logout, *)
(* and leaves every session field, isLoading and the store unchanged.      *)
(***************************************************************************)
C20_NoRefreshTokenNoOp ==
  [][ (last'.invoked
         /\ (IF last'.op = "caller" THEN refreshToken ELSE closure[2]) = NoToken)
        => /\ last'.ev = "noRefreshToken"
           /\ ~last'.escaped
           /\ procs' = procs
           /\ reactState' = reactState
           /\ pendingState' = pendingState
           /\ store' = store
           /\ storeQueue' = storeQueue
    ]_vars

C20_Witness ==
  /\ last.op = "caller"
  /\ last.ev = "noRefreshToken"
  /\ last.invoked
  /\ refreshToken = NoToken
  /\ RefreshCallsInFlight = {}
  /\ ~session.isLoading


(***************************************************************************)
(* C21: the access token's expiry follows the provider's stated lifetime   *)
(***************************************************************************)
\* the step in which login or refresh installed the tokens of a response
TokensInstalled ==
  \/ last.op = "login" /\ last.ev = "exchanged"
  \/ last.op = "refresh" /\ last.ev = "refreshed"

\* C21: on login and on refresh accessTokenExpiresAt is now + expiresIn
\* seconds for every lifetime the response states, and now + 300 s exactly
\* when the response omits the lifetime.  Violated: a stated lifetime of 0 is
\* falsy in "expiresIn ? ... : ..." and gets the 300 s default.
C21_ExpiryFromStatedLifetime ==
  TokensInstalled =>
    session.accessTokenExpiresAt =
      IF last.resp.expiresIn = NoExpiresIn
      THEN now + 300000
      ELSE now + last.resp.expiresIn * 1000

(***************************************************************************)
(* C22: the layout of the persisted session in the secure store            *)
(***************************************************************************)
\* the number of entries the secure store holds
StoreEntries == Len(store)

\* C22: the persisted session is four independently addressable store
\* entries, not one composite entry: once a login or a refresh has written
\* the session, the store holds four entries.  Violated: saveTokens writes
\* one JSON item under TOKENS_KEY.
C22_FourStoreEntries ==
  (last.op \in {"login", "refresh"} /\ last.ev = "saved") => StoreEntries = 4

(***************************************************************************)
(* C23: logout is final until the next login                               *)
(***************************************************************************)
\* C23: an unauthenticated session becomes authenticated only by a login
\* (or by the restore of a cold start), and while it is unauthenticated an
\* empty store stays empty; in particular the response of a refresh that
\* was in flight when logout cleared the session does not bring the session
\* back.  Violated: refreshAccessToken calls setTokenState and saveTokens
\* on the response without looking at the session it returns to.
C23_LogoutIsFinal ==
  [][ /\ (~Authenticated /\ Authenticated') => last'.op \in {"login", "init"}
      /\ (~Authenticated /\ store = EmptyStore /\ ~Authenticated')
           => store' = EmptyStore ]_vars

(***************************************************************************)
(* C24: no spurious logout under refresh-token rotation                    *)
(***************************************************************************)
\* the refresh call that takes the step was started while another was in
\* progress and was rejected by the provider, and the refresh token it
\* carried has meanwhile been replaced in the session by another refresh
CarriedSupersededToken ==
  /\ last'.op = "refresh"
  /\ last'.i > 1
  /\ last'.rejected
  /\ session.refreshToken # NoToken
  /\ last'.refresh # session.refreshToken

\* C24: with the provider rotating the refresh token, a second refresh
\* attempt that carries the superseded refresh token never forces the
\* session to Unauthenticated.  Violated: a timer tick and a foreground
\* resume start two refreshAccessToken calls with the same refresh token;
\* the first rotates it, the second fails and its catch calls logout().
C24_NoSpuriousLogout ==
  [][ (CarriedSupersededToken /\ Authenticated) => Authenticated' ]_vars

(***************************************************************************)
(* C25: the order of the store write and the in-memory update in login     *)
(***************************************************************************)
\* the in-memory session holds the tokens login() has just been issued
SessionHoldsIssuedTokens ==
  /\ Active(LoginId)
  /\ procs[LoginId].pending # NoTokens
  /\ session.accessToken = procs[LoginId].pending.accessToken
  /\ session.refreshToken = procs[LoginId].pending.refreshToken

\* C25: login() writes the new tokens to the store first and updates the
\* in-memory session afterwards: whenever the session holds the tokens a
\* login in progress was issued, the store holds them too.  Violated:
\* login() calls setTokenState before it awaits saveTokens.
C25_PersistThenMemory ==
  SessionHoldsIssuedTokens =>
    store = StoreWith(JSONstringify(procs[LoginId].pending))

(***************************************************************************)
(* C26: a lost store write during refresh                                  *)
(***************************************************************************)
\* the store write of a refresh has just been rejected
RefreshWriteLost == last.op = "refresh" /\ last.ev = "saveFailed"

\* C26: when the store write that follows a successful provider refresh
\* fails, refreshAccessToken only logs the failure: it returns without
\* invoking logout.  Violated: saveTokens is awaited inside the try whose
\* catch awaits logout().
C26_LostWriteIsNotLogout == RefreshWriteLost => ~Active(LastRunner)

(***************************************************************************)
(* C27: no credentials survive logout                                      *)
(***************************************************************************)
\* a logout() invoked by the user has just resolved
UserLogoutResolved == last.op = "logout" /\ last.ev \in LogoutReturned

\* C27: after logout() resolves, whatever failed in the revocation call or
\* in the store deletion, neither the in-memory session nor the store holds
\* a token, so the next cold start finds nothing to restore.  Violated:
\* when deleteItemAsync rejects, logout's catch only logs and the stored
\* tokens stay.
C27_NoCredentialsSurvive ==
  UserLogoutResolved => Unauthenticated /\ PersistedTokens = NoTokens

(***************************************************************************)
(* C28: refresh fails closed                                               *)
(***************************************************************************)
\* a refreshAccessToken call that reached the provider has just completed
RefreshCompleted ==
  /\ last.op = "refresh"
  /\ last.ev \in {"saved", "noAccessToken"} \cup LogoutReturned

\* C28: a refreshAccessToken call that reached the provider and completed
\* leaves either the new access token installed or the session forced to
\* Unauthenticated, also when the provider responds without an access
\* token.  Violated: a response without accessToken skips the if-block and
\* the call returns, leaving the old session as it was.
C28_RefreshFailsClosed ==
  RefreshCompleted =>
    \/ ~Authenticated
    \/ last.ev = "saved" /\ session.accessToken = last.pending.accessToken

(***************************************************************************)
(* C29: the proactive refresh is timely.  A second specification: the app  *)
(* stays in the foreground, the provider and the store answer every call   *)
(* with success, every token response states a lifetime of at least 120 s  *)
(* or none (300 s), the interval fires when it is due and a refresh in     *)
(* flight is answered before the next tick is due.  Otherwise the clock is *)
(* free: it may move while a call, a render or an effect is outstanding.   *)
(***************************************************************************)
\* the calls of one run: a login and the refreshes that follow it
TimelyCalls == 3
\* how far the clock runs after the start, and by which steps
TimelyHorizon == 240000
TimelySteps == {30000}

\* the lifetimes a response states: none (the 300 s default) or the least
\* one the claim covers
TimelyLifetimes == {NoExpiresIn, 120}
TimelyResponses ==
  [throws : {FALSE}, accessToken : AccessTokens, refreshToken : RefreshTokens,
   expiresIn : TimelyLifetimes]

\* time passes, but not beyond the instant at which the armed interval is
\* due, and not up to it while a refreshAsync call is unanswered
TimePasses(d) ==
  /\ now + d <= StartNow + TimelyHorizon
  /\ liveIntervals > 0 =>
       IF RefreshCallsInFlight # {} THEN now + d < intervalDue
       ELSE now + d <= intervalDue
  /\ now' = now + d
  /\ last' = Ev(<<"clock", 0>>, "advanced", FALSE, Idle)
  /\ UNCHANGED <<reactState, queueVars, alert, vaultVars, timerVars, effectVars, store,
                 appStateRef, procs, storeQueue, callsLeft>>

InitTimely == InitWith({EmptyStore}, TimelyCalls)

NextTimely ==
  \/ InitLoaded(TRUE)
  \/ LoginStart
  \/ LoginPrompted("success")
  \/ \E resp \in TimelyResponses : LoginExchanged(resp)
  \/ LoginSaved(TRUE)
  \/ TimerTick
  \/ \E me \in RefreshIds, resp \in TimelyResponses : RefreshResponded(me, resp)
  \/ \E me \in RefreshIds : RefreshSaved(me, TRUE)
  \/ \E d \in TimelySteps : TimePasses(d)
  \/ Render
  \/ PassiveEffects

SpecTimely == InitTimely /\ [][NextTimely]_vars

\* C29: for a session established by login or by a refresh with a lifetime
\* of at least 120 s, the timer starts a refresh strictly before
\* accessTokenExpiresAt, and the session never shows an access token that
\* has already expired.  Violated: the effects of every render arm the
\* interval anew, so a render that follows the one showing the tokens (that
\* of login's finally, once saveTokens has resolved) puts off the tick; it
\* then finds less than 60 s left, or none, and the token expires before
\* the refresh is answered or started.
C29_RefreshIsTimely ==
  /\ isAuthenticated => accessTokenExpiresAt > now
  /\ (last.op = "timer" /\ last.ev = "refreshing") => accessTokenExpiresAt > now

(***************************************************************************)
(* C30: vault data and the session.  In Spec and SpecApi the fetches that  *)
(* refreshVaults issues stay unanswered; SpecVault adds their answers.     *)
(***************************************************************************)
\* what the backend returns with status 200
VaultsData == <<"v1">>
MembershipsData == <<"m1">>

\* Promise.all([fetchVaults, fetchUserProfile]) of one refreshVaults call
\* has resolved (the fetch wrappers turn every failure into a response that
\* is not a 200): the two setters guarded by the status, then the finally
VaultResponded(vaultsOk, profileOk) ==
  /\ vaultCalls > 0
  /\ vaultCalls' = vaultCalls - 1
  /\ vaults' = IF vaultsOk THEN VaultsData ELSE vaults
  /\ memberships' = IF profileOk THEN MembershipsData ELSE memberships
  /\ vaultIsLoading' = FALSE
  /\ isInitialized' = TRUE
  /\ last' = Ev(<<"vault", 0>>, "responded", FALSE, Idle)
  /\ UNCHANGED <<reactState, queueVars, alert, timerVars, effectVars, store, now, appStateRef, procs, storeQueue, callsLeft>>

\* a screen calls refreshVaults() (onRefresh of VaultListScreen): the
\* closure of the last render, with the accessToken it rendered
VaultRefreshCall ==
  /\ vaultCalls < MaxVaultCalls
  /\ refreshVaults(accessToken)
  /\ last' = Ev(<<"vault", 0>>, "called", FALSE, Idle)
  /\ UNCHANGED <<reactState, queueVars, alert, timerVars, effectVars, store, now, appStateRef, procs, storeQueue, callsLeft>>

\* the token responses that renew a session
Renewals == {resp \in TokenResponses : resp.accessToken # NoToken}

\* the clock stands still: sessions come from the restore and from login,
\* are renewed by the refresh a foreground resume starts (the provider
\* answers it with an access token and the store takes the write), and end
\* by the logout the user confirms
NextVault ==
  \/ \E readOk \in BOOLEAN : InitLoaded(readOk)
  \/ \E ok \in BOOLEAN : InitCleared(ok)
  \/ LoginStart
  \/ \E result \in PromptResults : LoginPrompted(result)
  \/ \E resp \in Responses : LoginExchanged(resp)
  \/ \E ok \in BOOLEAN : LoginSaved(ok)
  \/ SignOutPressed
  \/ AlertDismissed
  \/ LogoutStart
  \/ \E me \in LogoutRunners, ok \in BOOLEAN : LogoutRevoked(me, ok)
  \/ \E me \in LogoutRunners, ok \in BOOLEAN : LogoutCleared(me, ok)
  \/ \E me \in LogoutRunners, ok \in BOOLEAN : LogoutEnded(me, ok)
  \/ \E me \in RefreshIds, resp \in Renewals : RefreshResponded(me, resp)
  \/ \E me \in RefreshIds : RefreshSaved(me, TRUE)
  \/ \E nextState \in AppStates : AppStateChange(nextState)
  \/ Render
  \/ PassiveEffects
  \/ VaultRefreshCall
  \/ \E vaultsOk, profileOk \in BOOLEAN : VaultResponded(vaultsOk, profileOk)

SpecVault == Init /\ [][NextVault]_vars

\* C30: once the session is Unauthenticated (rendered, the effects of the
\* render run) and every refreshVaults call has completed, VaultContext
\* exposes no vaults, no memberships and
\* isInitialized = false.  Violated: a refreshVaults call started while
\* Authenticated applies its responses after the logout, and nothing clears
\* them again.
C30_VaultDataEndsWithSession ==
  (~isAuthenticated /\ ~effectsDue /\ vaultCalls = 0) =>
    /\ vaults = <<>>
    /\ memberships = <<>>
    /\ ~isInitialized

====
